---- MODULE Spec2Model ----
(***************************************************************************)
(* MySQL MCP server: execute_sql, list_tables, describe_table              *)
(* (src/src/mysql_mcp/server.py) and the two helpers the package exports   *)
(* but server.py does not define, validate_table_name and table_exists.    *)
(*                                                                         *)
(* Text is modelled by TLA+ strings: Len, \o, SubSeq, Head and Tail act    *)
(* on them character by character, so formatting is computed, not assumed. *)
(***************************************************************************)
EXTENDS Integers, Sequences, FiniteSets, TLC

(***************************************************************************)
(* Bounds of the model.                                                    *)
(***************************************************************************)
\* longest name enumerated character by character for validate
MaxNameLen == 2
\* most rows a fetchall answers with
MaxRows == 2
\* largest cursor.rowcount the driver reports
MaxAffected == 2

(***************************************************************************)
(* Strings.                                                                *)
(***************************************************************************)
\* the backtick character (a backtick cannot be written alone in a literal)
Backtick == SubSeq("`'", 1, 1)

\* the i-th character of s, as a one-character string
CharAt(s, i) == SubSeq(s, i, i)

\* n copies of the character c
RECURSIVE Repeat(_, _)
Repeat(c, n) ==
    IF n <= 0 THEN ""
    ELSE IF n = 1 THEN c
    ELSE Repeat(c, n \div 2) \o Repeat(c, n - n \div 2)

\* Python's sep.join(parts)
RECURSIVE Join(_, _)
Join(sep, parts) ==
    IF parts = <<>> THEN ""
    ELSE IF Len(parts) = 1 THEN parts[1]
    ELSE parts[1] \o sep \o Join(sep, Tail(parts))

\* Python's text.split("\n"): the lines of a text
RECURSIVE SplitFrom(_, _, _)
SplitFrom(text, i, cur) ==
    IF i > Len(text) THEN <<cur>>
    ELSE IF CharAt(text, i) = "\n" THEN <<cur>> \o SplitFrom(text, i + 1, "")
    ELSE SplitFrom(text, i + 1, cur \o CharAt(text, i))

Lines(text) == SplitFrom(text, 1, "")

\* needle occurs in text (Python's `needle in text`)
Contains(text, needle) ==
    \E i \in 1..(Len(text) - Len(needle) + 1) :
        SubSeq(text, i, i + Len(needle) - 1) = needle

StartsWith(text, prefix) ==
    /\ Len(text) >= Len(prefix)
    /\ SubSeq(text, 1, Len(prefix)) = prefix

\* all strings over the characters cs of length at most n
RECURSIVE StringsUpTo(_, _)
StringsUpTo(cs, n) ==
    IF n = 0 THEN {""}
    ELSE LET S == StringsUpTo(cs, n - 1) IN S \cup {s \o c : s \in S, c \in cs}

(***************************************************************************)
(* validate_table_name (IdentifierValidator).                              *)
(***************************************************************************)
Letters ==
    {"a","b","c","d","e","f","g","h","i","j","k","l","m",
     "n","o","p","q","r","s","t","u","v","w","x","y","z",
     "A","B","C","D","E","F","G","H","I","J","K","L","M",
     "N","O","P","Q","R","S","T","U","V","W","X","Y","Z"}

Digits == {"0","1","2","3","4","5","6","7","8","9"}

\* longest identifier accepted
MaxIdentLen == 64

\* first character: [A-Za-z_$]
IsLeadChar(c) == c \in Letters \cup {"_", "$"}

\* later characters: [A-Za-z0-9_$]
IsIdentChar(c) == c \in Letters \cup Digits \cup {"_", "$"}

\* the scan of ^[A-Za-z_$][A-Za-z0-9_$]*$ from position i on
RECURSIVE MatchTail(_, _)
MatchTail(s, i) ==
    IF i > Len(s) THEN TRUE
    ELSE IF IsIdentChar(CharAt(s, i)) THEN MatchTail(s, i + 1)
    ELSE FALSE

validate_table_name_nolimit(name) ==
    IF name = "" THEN FALSE
    ELSE IF ~IsLeadChar(CharAt(name, 1)) THEN FALSE
    ELSE MatchTail(name, 2)

validate_table_name(name) ==
    IF name = "" \/ Len(name) > MaxIdentLen THEN FALSE
    ELSE IF ~IsLeadChar(CharAt(name, 1)) THEN FALSE
    ELSE MatchTail(name, 2)

(***************************************************************************)
(* The environment and get_db_config.                                      *)
(***************************************************************************)
\* os.environ is a mapping from the names of the variables that are set to
\* their values: a variable that is not set is not in its domain, a variable
\* set to the empty string is
IsSet(e, key) == key \in DOMAIN e

\* os.getenv(key, default): the default only when the variable is not set
getenv(e, key, default) == IF IsSet(e, key) THEN e[key] ELSE default

\* the truth value of os.getenv(key): None (not set) and "" are false
Provided(e, key) == IsSet(e, key) /\ e[key] # ""

\* os.environ with key set to value, and with key removed
Setenv(e, key, value) ==
    [k \in DOMAIN e \cup {key} |-> IF k = key THEN value ELSE e[k]]
Unsetenv(e, key) == [k \in DOMAIN e \ {key} |-> e[k]]

\* the ASCII control characters chr(1) .. chr(31), in order, and chr(127);
\* the values of the environment are taken to be ASCII text
ControlChars == "\t\n\f\r"
Delete == ""
Chr(n) == IF n = 127 THEN Delete ELSE CharAt(ControlChars, n)

\* the white space int() skips at both ends of an ASCII argument:
\* \t \n \x0b \x0c \r and the space
Whitespace == {" ", "\t", "\n", Chr(11), "\f", "\r"}

\* the number of white space characters s begins with, and ends with
LeadingSpaces(s) ==
    LET others == {i \in 1..Len(s) : CharAt(s, i) \notin Whitespace} IN
    IF others = {} THEN Len(s)
    ELSE (CHOOSE i \in others : \A j \in others : i <= j) - 1

TrailingSpaces(s) ==
    LET others == {i \in 1..Len(s) : CharAt(s, i) \notin Whitespace} IN
    IF others = {} THEN Len(s)
    ELSE Len(s) - (CHOOSE i \in others : \A j \in others : j <= i)

LStrip(s) == SubSeq(s, LeadingSpaces(s) + 1, Len(s))
RStrip(s) == SubSeq(s, 1, Len(s) - TrailingSpaces(s))

\* the argument of int() without the white space around it
Strip(s) ==
    IF LeadingSpaces(s) = Len(s) THEN ""
    ELSE SubSeq(s, LeadingSpaces(s) + 1, Len(s) - TrailingSpaces(s))

\* the argument of int() without its sign
Unsigned(t) ==
    IF t # "" /\ CharAt(t, 1) \in {"+", "-"} THEN SubSeq(t, 2, Len(t)) ELSE t

\* the length of the run of digits and underscores b begins with: int()
\* scans it before it looks at what follows
DigitRun(b) ==
    LET others == {i \in 1..Len(b) : CharAt(b, i) \notin Digits \cup {"_"}} IN
    IF others = {} THEN Len(b)
    ELSE (CHOOSE i \in others : \A j \in others : i <= j) - 1

\* the run is not empty and its underscores stand singly between two digits
WellFormedRun(b) ==
    LET k == DigitRun(b) IN
    /\ k > 0
    /\ CharAt(b, 1) # "_" /\ CharAt(b, k) # "_"
    /\ \A i \in 1..(k - 1) : ~(CharAt(b, i) = "_" /\ CharAt(b, i + 1) = "_")

\* the number of digits of the run
RunDigits(b) == Cardinality({i \in 1..DigitRun(b) : CharAt(b, i) \in Digits})

\* sys.get_int_max_str_digits(): the most digits int() converts
MaxStrDigits == 4300

\* the ValueError text of int() shows at most this much of repr(argument)
ReprLimit == 200

HexDigits == "0123456789abcdef"
Hex2(n) == CharAt(HexDigits, (n \div 16) + 1) \o CharAt(HexDigits, (n % 16) + 1)

\* the quote repr(s) puts around s: double quotes when s holds a single
\* quote and no double quote
ReprQuote(s) == IF Contains(s, "'") /\ ~Contains(s, "\"") THEN "\"" ELSE "'"

\* a character of s as repr(s) writes it between the quotes q
ReprChar(c, q) ==
    CASE c = "\\" -> "\\\\"
      [] c = "\n" -> "\\n"
      [] c = "\r" -> "\\r"
      [] c = "\t" -> "\\t"
      [] c = q -> "\\" \o c
      [] \E n \in 1..31 : c = Chr(n) -> "\\x" \o Hex2(CHOOSE n \in 1..31 : c = Chr(n))
      [] c = Delete -> "\\x7f"
      [] OTHER -> c

\* the characters lo..hi of s as repr writes them
RECURSIVE ReprRange(_, _, _, _)
ReprRange(s, q, lo, hi) ==
    IF lo > hi THEN ""
    ELSE IF lo = hi THEN ReprChar(CharAt(s, lo), q)
    ELSE ReprRange(s, q, lo, (lo + hi) \div 2) \o ReprRange(s, q, (lo + hi) \div 2 + 1, hi)

ReprBody(s, q) == ReprRange(s, q, 1, Len(s))

\* Python's repr(s) of a string
repr(s) == ReprQuote(s) \o ReprBody(s, ReprQuote(s)) \o ReprQuote(s)

\* repr(s) cut to ReprLimit characters (the format %.200R): every character
\* of s gives at least one, so the first ReprLimit - 1 of s decide it
ReprCut(s) ==
    LET q == ReprQuote(s)
        head == IF Len(s) < ReprLimit THEN s ELSE SubSeq(s, 1, ReprLimit - 1)
        text == q \o ReprBody(head, q) \o q
    IN  IF Len(text) <= ReprLimit THEN text ELSE SubSeq(text, 1, ReprLimit)

\* the text of the ValueError int(s) raises on the argument s, whose text
\* between white space and sign is b; "" when it raises none: the run of
\* digits is checked first, then its length, then what follows it
IntErrorOf(s, b) ==
    IF ~WellFormedRun(b)
    THEN "invalid literal for int() with base 10: " \o ReprCut(s)
    ELSE IF RunDigits(b) > MaxStrDigits
    THEN "Exceeds the limit (" \o ToString(MaxStrDigits)
         \o " digits) for integer string conversion: value has "
         \o ToString(RunDigits(b))
         \o " digits; use sys.set_int_max_str_digits() to increase the limit"
    ELSE IF DigitRun(b) < Len(b)
    THEN "invalid literal for int() with base 10: " \o ReprCut(s)
    ELSE ""

IntError(s) == CHOOSE m \in {IntErrorOf(s, b) : b \in {Unsigned(Strip(s))}} : TRUE

\* int(s) succeeds
IsIntLiteral(s) == IntError(s) = ""

\* the digits lo..hi of b, underscores left out
RECURSIVE DigitsOf(_, _, _)
DigitsOf(b, lo, hi) ==
    IF lo > hi THEN ""
    ELSE IF lo = hi THEN (IF CharAt(b, lo) = "_" THEN "" ELSE CharAt(b, lo))
    ELSE DigitsOf(b, lo, (lo + hi) \div 2) \o DigitsOf(b, (lo + hi) \div 2 + 1, hi)

\* the digits d without leading zeros ("0" for zero)
Canonical(d) ==
    LET others == {i \in 1..Len(d) : CharAt(d, i) # "0"} IN
    IF others = {} THEN "0"
    ELSE SubSeq(d, CHOOSE i \in others : \A j \in others : i <= j, Len(d))

\* int(s), for an s on which it succeeds. A Python int has no bound: the
\* model writes it in decimal, as str(int(s)) does
\* the decimal text of the integer with the sign of t and the digits of b
Decimal(t, b) ==
    CHOOSE v \in {IF CharAt(t, 1) = "-" /\ d # "0" THEN "-" \o d ELSE d :
                     d \in {Canonical(DigitsOf(b, 1, Len(b)))}} : TRUE

int(s) == CHOOSE v \in {Decimal(t, Unsigned(t)) : t \in {Strip(s)}} : TRUE

MissingConfigMsg ==
    "Missing required database configuration. "
    \o "Please set MYSQL_USER, MYSQL_PASSWORD, and MYSQL_DATABASE "
    \o "environment variables."

NoExc == [kind |-> "none", msg |-> ""]

\* the keys of the configuration get_db_config returns
ConfigKeys(e) ==
    {"host", "port", "user", "password", "database", "charset", "collation",
     "autocommit", "sql_mode"}
    \cup IF Provided(e, "MYSQL_CERT") THEN {"ssl_ca"} ELSE {}

\* get_db_config(): the configuration, or the ValueError it raises
get_db_config(e) ==
    LET port == getenv(e, "MYSQL_PORT", "3306") IN
    IF ~IsIntLiteral(port)
    THEN [ok |-> FALSE,
          exc |-> [kind |-> "ValueError", msg |-> IntError(port)],
          config |-> <<>>]
    ELSE IF ~(/\ Provided(e, "MYSQL_USER")
              /\ Provided(e, "MYSQL_PASSWORD")
              /\ Provided(e, "MYSQL_DATABASE"))
    THEN [ok |-> FALSE,
          exc |-> [kind |-> "ValueError", msg |-> MissingConfigMsg],
          config |-> <<>>]
    ELSE [ok |-> TRUE,
          exc |-> NoExc,
          config |->
              [k \in ConfigKeys(e) |->
                  CASE k = "host" -> getenv(e, "MYSQL_HOST", "localhost")
                    [] k = "port" -> int(port)
                    [] k = "user" -> e["MYSQL_USER"]
                    [] k = "password" -> e["MYSQL_PASSWORD"]
                    [] k = "database" -> e["MYSQL_DATABASE"]
                    [] k = "charset" -> getenv(e, "MYSQL_CHARSET", "utf8mb4")
                    [] k = "collation" ->
                           getenv(e, "MYSQL_COLLATION", "utf8mb4_unicode_ci")
                    [] k = "autocommit" -> TRUE
                    [] k = "sql_mode" -> getenv(e, "MYSQL_SQL_MODE", "TRADITIONAL")
                    [] OTHER -> e["MYSQL_CERT"]]]

\* the variables get_db_config reads
EnvKeys ==
    {"MYSQL_HOST", "MYSQL_PORT", "MYSQL_USER", "MYSQL_PASSWORD", "MYSQL_DATABASE",
     "MYSQL_CHARSET", "MYSQL_COLLATION", "MYSQL_SQL_MODE", "MYSQL_CERT"}

\* the environment of the tests: the three required variables, nothing else
FullEnv ==
    [k \in {"MYSQL_USER", "MYSQL_PASSWORD", "MYSQL_DATABASE"} |->
        CASE k = "MYSQL_USER" -> "test_user"
          [] k = "MYSQL_PASSWORD" -> "test_password"
          [] OTHER -> "test_db"]

\* the environments a call may find: ports int() takes and ports it
\* refuses, variables set to the empty string, required variables not set
Envs ==
    {FullEnv,
     Setenv(Setenv(FullEnv, "MYSQL_PORT", Chr(11) \o " -3_306\n"), "MYSQL_CERT", "/ca.pem"),
     Setenv(Setenv(FullEnv, "MYSQL_PORT", "007"), "MYSQL_HOST", ""),
     Setenv(FullEnv, "MYSQL_PORT", ""),
     Setenv(FullEnv, "MYSQL_PORT", "abc"),
     Setenv(FullEnv, "MYSQL_PORT", "a'b" \o Chr(28)),
     Setenv(FullEnv, "MYSQL_PORT", "1__0"),
     Unsetenv(FullEnv, "MYSQL_USER"),
     Setenv(FullEnv, "MYSQL_PASSWORD", ""),
     Unsetenv(FullEnv, "MYSQL_DATABASE")}

(***************************************************************************)
(* Values the database driver hands back.                                  *)
(***************************************************************************)
\* a cell of a fetched row: an integer, a string or None
IntCell(n) == [t |-> "int", n |-> n, s |-> ""]
StrCell(s) == [t |-> "str", n |-> 0, s |-> s]
NoneCell == [t |-> "none", n |-> 0, s |-> ""]

\* Python's str(cell)
str(cell) ==
    CASE cell.t = "int" -> ToString(cell.n)
      [] cell.t = "none" -> "None"
      [] OTHER -> cell.s

\* Python's truth value of a cell
Truthy(cell) ==
    CASE cell.t = "int" -> cell.n # 0
      [] cell.t = "none" -> FALSE
      [] OTHER -> cell.s # ""

\* the cells a result row is made of
CellValues == {IntCell(5), StrCell("users"), StrCell("x\ny"), NoneCell}

\* cursor.description of a row-returning statement: its column names
Descriptions == {<<"count">>, <<"id", "name">>}

\* cursor.description of a statement that returns no rows (None)
NoDescription == <<>>

\* the lists of at most MaxRows rows over the row values R
RowLists(R) == UNION {[1..m -> R] : m \in 0..MaxRows}

\* what fetchall can answer for a statement with n columns
ResultSets(cells, n) == RowLists([1..n -> cells])

\* rows of SHOW TABLES
TableRows == {<<StrCell("users")>>, <<StrCell("products")>>, <<>>}

\* rows of DESCRIBE: field, type, null, key, default, extra
ColumnRows ==
    {<<StrCell("id"), StrCell("int(11)"), StrCell("NO"), StrCell("PRI"),
       NoneCell, StrCell("auto_increment")>>,
     <<StrCell("name"), StrCell("varchar(255)"), StrCell("YES"), StrCell(""),
       StrCell("anon"), StrCell("")>>}

\* what fetchone answers: a row, or None (the empty tuple here)
NoRow == <<>>
CountRows == {NoRow, <<IntCell(0)>>, <<IntCell(50)>>}

(***************************************************************************)
(* Rendering.                                                              *)
(***************************************************************************)
NoResultsText == "Query executed successfully. No results returned."

RowsText_noheader(columns, rows) ==
    IF rows = <<>> THEN "Query executed successfully. No results returned."
    ELSE Join("\n", [i \in 1..Len(rows) |->
                        Join(",", [j \in 1..Len(rows[i]) |-> str(rows[i][j])])])

RowsText_nocheck(columns, rows) ==
    Join("\n", <<Join(",", columns)>>
               \o [i \in 1..Len(rows) |->
                     Join(",", [j \in 1..Len(rows[i]) |-> str(rows[i][j])])])

\* ",".join(map(str, row))
RowLine(row) == Join(",", [j \in 1..Len(row) |-> str(row[j])])

\* execute_sql, the row-returning branch
RowsText(columns, rows) ==
    IF rows = <<>> THEN NoResultsText
    ELSE Join("\n", <<Join(",", columns)>> \o [i \in 1..Len(rows) |-> RowLine(rows[i])])

AffectedText_fixed(rowcount) == "Query executed successfully. 1 rows affected."

\* execute_sql, the branch of a statement without description
AffectedText(rowcount) ==
    "Query executed successfully. " \o ToString(rowcount) \o " rows affected."

\* list_tables: the "- name" entries of the rows that have a first cell
RECURSIVE TableList(_)
TableList(tables) ==
    IF tables = <<>> THEN <<>>
    ELSE IF Len(Head(tables)) > 0
         THEN <<"- " \o str(Head(tables)[1])>> \o TableList(Tail(tables))
         ELSE TableList(Tail(tables))

TablesText(tables) ==
    IF tables = <<>> THEN "No tables found in the database."
    ELSE "Available tables:\n" \o Join("\n", TableList(tables))

\* describe_table: one line of the Columns section
ColumnLine(col) ==
    LET null_str == IF col[3] = StrCell("YES") THEN "NULL" ELSE "NOT NULL"
        key_str == IF Truthy(col[4])
                   THEN " (" \o str(col[4]) \o ")" ELSE ""
        default_str == IF col[5].t # "none" THEN " DEFAULT " \o str(col[5]) ELSE ""
        extra_str == IF Truthy(col[6])
                     THEN " " \o str(col[6]) ELSE ""
    IN  "  - " \o str(col[1]) \o ": " \o str(col[2]) \o " "
        \o null_str \o key_str \o default_str \o extra_str

NoColumnsText(table) == "Table '" \o table \o "' not found or has no columns."

\* describe_table: the report, from the DESCRIBE rows and the COUNT row
DescribeText(table, columns, count_result) ==
    LET row_count == IF count_result # NoRow THEN str(count_result[1]) ELSE "0" IN
    Join("\n",
         <<"Table: " \o table, Repeat("=", 50), "", "Columns:">>
         \o [i \in 1..Len(columns) |-> ColumnLine(columns[i])]
         \o <<"", "Total rows: " \o row_count>>)

ErrorText_swapped(e) ==
    IF e.kind = "Error" THEN "Unexpected error: " \o e.msg
    ELSE "MySQL error: " \o e.msg

\* the two except clauses of execute_sql, list_tables and describe_table
ErrorText(e) ==
    IF e.kind = "Error" THEN "MySQL error: " \o e.msg
    ELSE "Unexpected error: " \o e.msg

(***************************************************************************)
(* Inputs.                                                                 *)
(***************************************************************************)
\* the SQL texts execute_sql is called with
Queries ==
    {"SELECT COUNT(*) as count FROM users",
     "INSERT INTO users (name) VALUES ('x')"}

\* the table names describe_table and table_exists are called with
TableArgs ==
    {"users", "nonexistent", "_t$1", "", "1users",
     "invalid;DROP TABLE users;--", Repeat("a", MaxIdentLen + 1)}

\* the characters of the enumerated names
NameChars == {"a", "Z", "7", "_", "$", ";", " ", Backtick}

\* names around the length limit: a short head, then padding
LongNames ==
    {h \o Repeat("a", n) : h \in StringsUpTo(NameChars, 1),
                           n \in (MaxIdentLen - 2)..(MaxIdentLen + 1)}
    \cup {Repeat("a", MaxIdentLen - 1) \o c : c \in NameChars}

\* the names validate_table_name is called with
Names == StringsUpTo(NameChars, MaxNameLen) \cup LongNames \cup TableArgs

Invocations ==
    ({"execute"} \X Queries)
    \cup {<<"list", "">>}
    \cup ({"describe"} \X TableArgs)
    \cup ({"exists"} \X TableArgs)
    \cup ({"validate"} \X Names)

(***************************************************************************)
(* State.                                                                  *)
(***************************************************************************)
VARIABLES
    env,    \* os.environ, as far as get_db_config reads it
    db,     \* the database and its driver: the values its answers are made
            \* of and the kinds of exception its calls raise
    calls   \* the invocations: calls[p] is the frame of invocation slot p

vars == <<env, db, calls>>

NoVal == [kind |-> "none", text |-> "", flag |-> FALSE]
TextVal(t) == [kind |-> "text", text |-> t, flag |-> FALSE]
BoolVal(b) == [kind |-> "bool", text |-> "", flag |-> b]
Raised == [kind |-> "raised", text |-> "", flag |-> FALSE]

\* a slot with no invocation in it
Idle ==
    [op |-> "none", arg |-> "", pc |-> "idle",
     conn |-> "none", cur |-> "none", conn_id |-> 0, cur_id |-> 0,
     description |-> NoDescription, rowcount |-> -1,
     rows |-> <<>>, count_result |-> NoRow,
     exc |-> NoExc, ret |-> NoVal, result |-> NoVal,
     log |-> <<>>]

\* one call on the driver, as the invocation's log keeps it
Event(ev, sql, params, out) == [ev |-> ev, sql |-> sql, params |-> params, out |-> out]

\* the slots of the sequential specification
Slots == {1}

\* the database of the sequential specification
FullDb ==
    [cells |-> CellValues, descriptions |-> Descriptions,
     tables |-> TableRows, columns |-> ColumnRows, counts |-> CountRows,
     failures |-> {"Error", "Exception"}]

Init ==
    /\ env \in Envs
    /\ db = FullDb
    /\ calls = [p \in Slots |-> Idle]

\* the ways a call on the driver can fail at step `step` of operation o: a
\* database error (mysql.connector.Error) or any other exception;
\* table_exists is defined on database errors only
Failures(o, step) ==
    {[kind |-> "Error", msg |-> step \o " failed"] : k \in db.failures \cap {"Error"}}
    \cup IF o = "exists" THEN {}
         ELSE {[kind |-> "Exception", msg |-> "bad " \o step] :
                  k \in db.failures \cap {"Exception"}}

Set(p, frame) == calls' = [calls EXCEPT ![p] = frame]

(***************************************************************************)
(* Entering an operation.                                                  *)
(***************************************************************************)
FirstPc(o) ==
    CASE o \in {"execute", "list", "describe"} -> "config"
      [] o = "exists" -> "connect"
      [] OTHER -> "validate"

\* a caller invokes operation o with argument a; table_exists is handed a
\* configuration, which its caller resolved
Invoke(p, o, a) ==
    /\ calls[p].pc = "idle"
    /\ o = "exists" => get_db_config(env).ok
    /\ Set(p, [Idle EXCEPT !.op = o, !.arg = a, !.pc = FirstPc(o)])
    /\ UNCHANGED <<env, db>>

\* validate_table_name(name)
Validate(p) ==
    /\ calls[p].pc = "validate"
    /\ Set(p, [calls[p] EXCEPT !.result = BoolVal(validate_table_name(calls[p].arg)),
                               !.pc = "done"])
    /\ UNCHANGED <<env, db>>

\* config = get_db_config(), before the try block: its ValueError leaves
\* the operation
ResolveConfig(p) ==
    /\ calls[p].pc = "config"
    /\ LET r == get_db_config(env) IN
       IF r.ok
       THEN Set(p, [calls[p] EXCEPT !.pc = "connect"])
       ELSE Set(p, [calls[p] EXCEPT !.exc = r.exc, !.result = Raised, !.pc = "done"])
    /\ UNCHANGED <<env, db>>

(***************************************************************************)
(* The scoped connection and cursor: with connect(config) as conn,       *)
(* with conn.cursor() as cursor.                                           *)
(***************************************************************************)
Logged(f, ev, sql, params, out) == Append(f.log, Event(ev, sql, params, out))

\* the connection objects other invocations hold open
HeldByOthers(p) ==
    {calls[q].conn_id : q \in {r \in DOMAIN calls : r # p /\ calls[r].conn = "open"}}

FreshHandle_shared(p) == 1

\* connect() makes a new connection object: one no other invocation holds
FreshHandle(p) ==
    CHOOSE h \in 1..(Cardinality(DOMAIN calls)) :
        /\ h \notin HeldByOthers(p)
        /\ \A g \in 1..(h - 1) : g \in HeldByOthers(p)

\* connect(config)
Connect(p) ==
    /\ calls[p].pc = "connect"
    /\ LET f == calls[p] IN
       \/ Set(p, [f EXCEPT !.conn = "open", !.conn_id = FreshHandle(p), !.pc = "cursor",
                           !.log = Logged(f, "connect", "", <<>>, "ok")])
       \/ \E e \in Failures(f.op, "connect") :
            Set(p, [f EXCEPT !.exc = e, !.pc = "except",
                             !.log = Logged(f, "connect", "", <<>>, e.kind)])
    /\ UNCHANGED <<env, db>>

OpenCursor_leak(p) ==
    /\ calls[p].pc = "cursor"
    /\ LET f == calls[p] IN
       \/ Set(p, [f EXCEPT !.cur = "open", !.cur_id = f.conn_id, !.pc = "execute",
                           !.log = Logged(f, "cursor", "", <<>>, "ok")])
       \/ \E e \in Failures(f.op, "cursor") :
            Set(p, [f EXCEPT !.exc = e, !.pc = "except",
                             !.log = Logged(f, "cursor", "", <<>>, e.kind)])
    /\ UNCHANGED <<env, db>>

\* conn.cursor()
OpenCursor(p) ==
    /\ calls[p].pc = "cursor"
    /\ LET f == calls[p] IN
       \/ Set(p, [f EXCEPT !.cur = "open", !.cur_id = f.conn_id, !.pc = "execute",
                           !.log = Logged(f, "cursor", "", <<>>, "ok")])
       \/ \E e \in Failures(f.op, "cursor") :
            Set(p, [f EXCEPT !.exc = e, !.pc = "exit_conn",
                             !.log = Logged(f, "cursor", "", <<>>, e.kind)])
    /\ UNCHANGED <<env, db>>

(***************************************************************************)
(* The statements.                                                         *)
(***************************************************************************)
ExistsStatement_spliced(name) ==
    [sql |-> "SHOW TABLES LIKE '" \o name \o "'", params |-> <<>>]

\* table_exists: the check, with the name as the bound parameter
ExistsStatement(name) == [sql |-> "SHOW TABLES LIKE %s", params |-> <<name>>]

\* describe_table: the structure query, the name spliced between backticks
DescribeStatement(table) ==
    [sql |-> "DESCRIBE " \o Backtick \o table \o Backtick, params |-> <<>>]

\* describe_table: the row count query
CountStatement(table) ==
    [sql |-> "SELECT COUNT(*) FROM " \o Backtick \o table \o Backtick, params |-> <<>>]

\* the first statement of each operation
Statement(f) ==
    CASE f.op = "execute" -> [sql |-> f.arg, params |-> <<>>]
      [] f.op = "list" -> [sql |-> "SHOW TABLES", params |-> <<>>]
      [] f.op = "describe" -> DescribeStatement(f.arg)
      [] OTHER -> ExistsStatement(f.arg)

\* what cursor.description and cursor.rowcount can be after the statement
Answers(o) ==
    CASE o = "execute" ->
            {[description |-> NoDescription, rowcount |-> n] : n \in 0..MaxAffected}
            \cup {[description |-> d, rowcount |-> -1] : d \in db.descriptions}
      [] o = "list" -> {[description |-> <<"Tables_in_test_db">>, rowcount |-> -1]}
      [] o = "describe" ->
            {[description |-> <<"Field", "Type", "Null", "Key", "Default", "Extra">>,
              rowcount |-> -1]}
      [] OTHER -> {[description |-> <<"Tables_in_test_db (%)">>, rowcount |-> -1]}

AfterExecute_alwaysfetch(o, description) ==
    IF o = "exists" THEN "fetchone" ELSE "fetchall"

\* execute_sql: if cursor.description ... else ...
AfterExecute(o, description) ==
    IF o = "execute" /\ description = NoDescription THEN "commit"
    ELSE IF o = "exists" THEN "fetchone"
    ELSE "fetchall"

Execute_retry(p) ==
    /\ calls[p].pc = "execute"
    /\ LET f == calls[p]
           st == Statement(f)
       IN
       \/ \E a \in Answers(f.op) :
            Set(p, [f EXCEPT !.description = a.description, !.rowcount = a.rowcount,
                             !.pc = AfterExecute(f.op, a.description),
                             !.log = Logged(f, "execute", st.sql, st.params, "ok")])
       \/ \E e \in Failures(f.op, "execute") :
            Set(p, [f EXCEPT !.exc = e,
                             !.pc = IF \A i \in 1..Len(f.log) : f.log[i].out = "ok"
                                    THEN "execute" ELSE "exit_cursor",
                             !.log = Logged(f, "execute", st.sql, st.params, e.kind)])
    /\ UNCHANGED <<env, db>>

\* cursor.execute(...), the first statement of the operation
Execute(p) ==
    /\ calls[p].pc = "execute"
    /\ LET f == calls[p]
           st == Statement(f)
       IN
       \/ \E a \in Answers(f.op) :
            Set(p, [f EXCEPT !.description = a.description, !.rowcount = a.rowcount,
                             !.pc = AfterExecute(f.op, a.description),
                             !.log = Logged(f, "execute", st.sql, st.params, "ok")])
       \/ \E e \in Failures(f.op, "execute") :
            Set(p, [f EXCEPT !.exc = e, !.pc = "exit_cursor",
                             !.log = Logged(f, "execute", st.sql, st.params, e.kind)])
    /\ UNCHANGED <<env, db>>

\* what cursor.fetchall() can answer in operation o
Fetched(f) ==
    CASE f.op = "execute" -> ResultSets(db.cells, Len(f.description))
      [] f.op = "list" -> RowLists(db.tables)
      [] OTHER -> RowLists(db.columns)

\* the value the operation returns right after fetchall, if it returns there
ReturnAfterFetch(f, rows) ==
    CASE f.op = "execute" -> TextVal(RowsText(f.description, rows))
      [] f.op = "list" -> TextVal(TablesText(rows))
      [] f.op = "describe" /\ rows = <<>> -> TextVal(NoColumnsText(f.arg))
      [] OTHER -> NoVal

\* cursor.fetchall()
FetchAll(p) ==
    /\ calls[p].pc = "fetchall"
    /\ LET f == calls[p] IN
       \/ \E rows \in Fetched(f) :
            LET r == ReturnAfterFetch(f, rows) IN
            Set(p, [f EXCEPT !.rows = rows, !.ret = r,
                             !.pc = IF r = NoVal THEN "execute_count" ELSE "exit_cursor",
                             !.log = Logged(f, "fetchall", "", <<>>, "ok")])
       \/ \E e \in Failures(f.op, "fetchall") :
            Set(p, [f EXCEPT !.exc = e, !.pc = "exit_cursor",
                             !.log = Logged(f, "fetchall", "", <<>>, e.kind)])
    /\ UNCHANGED <<env, db>>

\* conn.commit(), then the return of the sentence with cursor.rowcount
Commit(p) ==
    /\ calls[p].pc = "commit"
    /\ LET f == calls[p] IN
       \/ Set(p, [f EXCEPT !.ret = TextVal(AffectedText(f.rowcount)),
                           !.pc = "exit_cursor",
                           !.log = Logged(f, "commit", "", <<>>, "ok")])
       \/ \E e \in Failures(f.op, "commit") :
            Set(p, [f EXCEPT !.exc = e, !.pc = "exit_cursor",
                             !.log = Logged(f, "commit", "", <<>>, e.kind)])
    /\ UNCHANGED <<env, db>>

\* describe_table: cursor.execute of the row count query
ExecuteCount(p) ==
    /\ calls[p].pc = "execute_count"
    /\ LET f == calls[p]
           st == CountStatement(f.arg)
       IN
       \/ Set(p, [f EXCEPT !.pc = "fetch_count",
                           !.log = Logged(f, "execute", st.sql, st.params, "ok")])
       \/ \E e \in Failures(f.op, "execute") :
            Set(p, [f EXCEPT !.exc = e, !.pc = "exit_cursor",
                             !.log = Logged(f, "execute", st.sql, st.params, e.kind)])
    /\ UNCHANGED <<env, db>>

\* describe_table: cursor.fetchone() of the count, then the report
FetchCount(p) ==
    /\ calls[p].pc = "fetch_count"
    /\ LET f == calls[p] IN
       \/ \E c \in db.counts :
            Set(p, [f EXCEPT !.count_result = c,
                             !.ret = TextVal(DescribeText(f.arg, f.rows, c)),
                             !.pc = "exit_cursor",
                             !.log = Logged(f, "fetchone", "", <<>>, "ok")])
       \/ \E e \in Failures(f.op, "fetchone") :
            Set(p, [f EXCEPT !.exc = e, !.pc = "exit_cursor",
                             !.log = Logged(f, "fetchone", "", <<>>, e.kind)])
    /\ UNCHANGED <<env, db>>

\* table_exists: whether fetchone answered a row
ExistsResult(row) == row # NoRow

\* table_exists: cursor.fetchone() of the check
FetchExists(p) ==
    /\ calls[p].pc = "fetchone"
    /\ LET f == calls[p] IN
       \/ \E row \in {NoRow, <<StrCell(f.arg)>>} :
            Set(p, [f EXCEPT !.count_result = row,
                             !.ret = BoolVal(ExistsResult(row)),
                             !.pc = "exit_cursor",
                             !.log = Logged(f, "fetchone", "", <<>>, "ok")])
       \/ \E e \in Failures(f.op, "fetchone") :
            Set(p, [f EXCEPT !.exc = e, !.pc = "exit_cursor",
                             !.log = Logged(f, "fetchone", "", <<>>, e.kind)])
    /\ UNCHANGED <<env, db>>

(***************************************************************************)
(* Leaving the with blocks, the except clauses, the return.                *)
(***************************************************************************)
\* the cursor's __exit__: the cursor is closed; a failure of the close
\* replaces the pending return or exception
ExitCursor(p) ==
    /\ calls[p].pc = "exit_cursor"
    /\ LET f == calls[p] IN
       \/ Set(p, [f EXCEPT !.cur = "closed", !.pc = "exit_conn",
                           !.log = Logged(f, "close_cursor", "", <<>>, "ok")])
       \/ \E e \in Failures(f.op, "close_cursor") :
            Set(p, [f EXCEPT !.cur = "closed", !.exc = e, !.ret = NoVal,
                             !.pc = "exit_conn",
                             !.log = Logged(f, "close_cursor", "", <<>>, e.kind)])
    /\ UNCHANGED <<env, db>>

\* where control goes when the connection's with block is left
AfterExit(f, e) ==
    IF e = NoExc THEN [f EXCEPT !.result = f.ret, !.pc = "done"]
    ELSE [f EXCEPT !.exc = e, !.ret = NoVal, !.pc = "except"]

\* the connection's __exit__
ExitConn(p) ==
    /\ calls[p].pc = "exit_conn"
    /\ LET f == calls[p] IN
       \/ Set(p, [AfterExit(f, f.exc) EXCEPT
                     !.conn = "closed",
                     !.log = Logged(f, "close_conn", "", <<>>, "ok")])
       \/ \E e \in Failures(f.op, "close_conn") :
            Set(p, [AfterExit(f, e) EXCEPT
                     !.conn = "closed",
                     !.log = Logged(f, "close_conn", "", <<>>, e.kind)])
    /\ UNCHANGED <<env, db>>

ExistsExcept_failopen(e) == IF e.kind = "Error" THEN BoolVal(TRUE) ELSE Raised

\* table_exists: a database error answers False
ExistsExcept(e) == IF e.kind = "Error" THEN BoolVal(FALSE) ELSE Raised

ToolExcept_errorsonly(e) ==
    IF e.kind = "Error" THEN TextVal("MySQL error: " \o e.msg) ELSE Raised

\* execute_sql, list_tables, describe_table: except Error / except Exception
ToolExcept(e) == TextVal(ErrorText(e))

\* the except clauses of the operation
Except(p) ==
    /\ calls[p].pc = "except"
    /\ LET f == calls[p] IN
       Set(p, [f EXCEPT !.result = IF f.op = "exists" THEN ExistsExcept(f.exc)
                                   ELSE ToolExcept(f.exc),
                        !.pc = "done"])
    /\ UNCHANGED <<env, db>>

\* the caller takes the result; the slot is free again
Return(p) ==
    /\ calls[p].pc = "done"
    /\ Set(p, Idle)
    /\ UNCHANGED <<env, db>>

Next ==
    \E p \in Slots :
        \/ \E i \in Invocations : Invoke(p, i[1], i[2])
        \/ Validate(p)
        \/ ResolveConfig(p)
        \/ Connect(p)
        \/ OpenCursor(p)
        \/ Execute(p)
        \/ FetchAll(p)
        \/ Commit(p)
        \/ ExecuteCount(p)
        \/ FetchCount(p)
        \/ FetchExists(p)
        \/ ExitCursor(p)
        \/ ExitConn(p)
        \/ Except(p)
        \/ Return(p)

Spec == Init /\ [][Next]_vars

(***************************************************************************)
(* Concurrent invocations: the tools are plain functions with no module-   *)
(* level state, so an MCP host may have several of them in flight; their   *)
(* steps interleave in any order.                                          *)
(***************************************************************************)
ConcSlots == {1, 2}

\* a database with one value of each kind of answer
SmallDb ==
    [cells |-> {IntCell(5)}, descriptions |-> {<<"count">>},
     tables |-> {<<StrCell("users")>>},
     columns |-> {<<StrCell("name"), StrCell("varchar(255)"), StrCell("YES"),
                    StrCell(""), StrCell("anon"), StrCell("")>>},
     counts |-> {<<IntCell(50)>>},
     failures |-> {"Error"}]

\* the tools invoked concurrently
ConcInvocations ==
    {<<"execute", "SELECT COUNT(*) as count FROM users">>,
     <<"execute", "INSERT INTO users (name) VALUES ('x')">>,
     <<"list", "">>,
     <<"describe", "users">>}

InitConc ==
    /\ env \in {FullEnv, Unsetenv(FullEnv, "MYSQL_USER")}
    /\ db = SmallDb
    /\ calls = [p \in ConcSlots |-> Idle]

\* the steps of an invocation once it is entered
Advance(p) ==
    \/ ResolveConfig(p)
    \/ Connect(p)
    \/ OpenCursor(p)
    \/ Execute(p)
    \/ FetchAll(p)
    \/ Commit(p)
    \/ ExecuteCount(p)
    \/ FetchCount(p)
    \/ ExitCursor(p)
    \/ ExitConn(p)
    \/ Except(p)
    \/ Return(p)

NextConc ==
    \E p \in ConcSlots :
        \/ \E i \in ConcInvocations : Invoke(p, i[1], i[2])
        \/ ResolveConfig(p)
        \/ Connect(p)
        \/ OpenCursor(p)
        \/ Execute(p)
        \/ FetchAll(p)
        \/ Commit(p)
        \/ ExecuteCount(p)
        \/ FetchCount(p)
        \/ ExitCursor(p)
        \/ ExitConn(p)
        \/ Except(p)
        \/ Return(p)

SpecConc == InitConc /\ [][NextConc]_vars

(***************************************************************************)
(* Properties.                                                             *)
(***************************************************************************)
\* the frames of the invocations
Frames == {calls[p] : p \in DOMAIN calls}

\* the positions of the log at which the driver call `ev` was made
At(f, ev) == {i \in 1..Len(f.log) : f.log[i].ev = ev}

\* no call on the driver failed
AllOk(f) == \A i \in 1..Len(f.log) : f.log[i].out = "ok"

\* some call on the driver failed with a database error
DatabaseErrorIn(f) == \E i \in 1..Len(f.log) : f.log[i].out = "Error"

\* the identifier rule, as the specification words it
IdentifierRule(s) ==
    /\ Len(s) >= 1
    /\ Len(s) <= 64
    /\ CharAt(s, 1) \notin Digits
    /\ \A i \in 1..Len(s) : CharAt(s, i) \in Letters \cup Digits \cup {"_", "$"}

NotFoundText(table) == "Table '" \o table \o "' not found in the database"

\* C1: describe on a name that fails the identifier rule makes no call on
\* the database at all and returns a message that contains "Invalid table
\* name" and the rejected name.
C1_InvalidNameNeverReachesDatabase ==
    \A f \in Frames :
        f.op = "describe" /\ ~IdentifierRule(f.arg) =>
            /\ f.log = <<>>
            /\ f.pc = "done" /\ f.result.kind = "text" =>
                 /\ Contains(f.result.text, "Invalid table name")
                 /\ Contains(f.result.text, f.arg)

\* C2: describe on a name that passes the identifier rule and names no table
\* (no column row ever comes back for it) returns the sentence "Table
\* '<name>' not found in the database" and sends neither the DESCRIBE nor
\* the COUNT statement.
C2_NotFoundWithoutStructureQuery ==
    \A f \in Frames :
        f.op = "describe" /\ IdentifierRule(f.arg) /\ f.pc = "done"
        /\ f.cur # "none" /\ f.rows = <<>> =>
            /\ f.result = TextVal(NotFoundText(f.arg))
            /\ \A i \in At(f, "execute") :
                 f.log[i].sql \notin {DescribeStatement(f.arg).sql,
                                      CountStatement(f.arg).sql}

\* C3: validate answers true exactly for the strings of length 1 to 64 whose
\* first character is in [A-Za-z_$] and whose characters are all in
\* [A-Za-z0-9_$].
C3_ValidateIsIdentifierRule ==
    \A f \in Frames :
        f.op = "validate" /\ f.pc = "done" =>
            f.result = BoolVal(IdentifierRule(f.arg))

\* a name of the maximum length was accepted
C3_Witness ==
    \E f \in Frames :
        /\ f.op = "validate" /\ f.pc = "done"
        /\ Len(f.arg) = 64 /\ f.result = BoolVal(TRUE)

\* C4: exists is fail-closed: when a database error occurred at any step of
\* the check, it returns false and does not raise.
C4_ExistsFailClosed ==
    \A f \in Frames :
        f.op = "exists" /\ f.pc = "done" /\ DatabaseErrorIn(f) =>
            f.result = BoolVal(FALSE)

\* the connection could not be opened and exists answered false
C4_Witness ==
    \E f \in Frames :
        /\ f.op = "exists" /\ f.pc = "done"
        /\ f.log = <<Event("connect", "", <<>>, "Error")>>
        /\ f.result = BoolVal(FALSE)

\* C5: exists sends one statement only, "SHOW TABLES LIKE %s" with the name
\* as bound parameter and never in the SQL text (exactly one once its cursor
\* is open, none when the connection or cursor could not be opened), and it
\* returns true exactly when that statement answered a row and no database
\* error occurred.
C5_ExistsParameterizedCheck ==
    \A f \in Frames :
        f.op = "exists" /\ f.pc = "done" =>
            /\ Cardinality(At(f, "execute")) <= 1
            /\ f.cur # "none" => Cardinality(At(f, "execute")) = 1
            /\ \A i \in At(f, "execute") :
                 /\ f.log[i].sql = "SHOW TABLES LIKE %s"
                 /\ f.log[i].params = <<f.arg>>
            /\ f.result.kind = "bool"
            /\ f.result.flag <=>
                 /\ \E i \in At(f, "fetchone") : f.log[i].out = "ok"
                 /\ f.count_result # NoRow
                 /\ ~DatabaseErrorIn(f)

\* the check was sent for a name that fails the identifier rule, a row came
\* back and exists answered true
C5_Witness ==
    \E f \in Frames :
        /\ f.op = "exists" /\ f.pc = "done"
        /\ f.arg = "invalid;DROP TABLE users;--"
        /\ f.result = BoolVal(TRUE)
        /\ \E i \in At(f, "execute") : f.log[i].params = <<f.arg>>

\* the invocation is an execute_sql that has returned or raised
ExecuteDone(f) == f.op = "execute" /\ f.pc = "done"

\* the statement of the invocation was executed without error
StatementOk(f) == \E i \in At(f, "execute") : f.log[i].out = "ok"

\* C6: an execute whose statement has no column description and in which no
\* call fails calls commit exactly once, after the statement and before the
\* connection is released, and returns "Query executed successfully. <n>
\* rows affected." with n the row count the driver reported.
C6_MutationCommitsOnce ==
    \A f \in Frames :
        ExecuteDone(f) /\ StatementOk(f) /\ f.description = NoDescription =>
            /\ Cardinality(At(f, "commit")) = 1
            /\ \A c \in At(f, "commit") :
                 /\ \A i \in At(f, "execute") : i < c
                 /\ \A i \in At(f, "close_conn") : c < i
            /\ AllOk(f) =>
                 f.result = TextVal("Query executed successfully. "
                                    \o ToString(f.rowcount) \o " rows affected.")

\* a statement that affected two rows was committed and reported
C6_Witness ==
    \E f \in Frames :
        /\ ExecuteDone(f) /\ AllOk(f) /\ f.description = NoDescription
        /\ f.rowcount = 2
        /\ f.result = TextVal("Query executed successfully. 2 rows affected.")
        /\ Cardinality(At(f, "commit")) = 1

\* the lines the claim names: the header, then one line per fetched row
ExpectedLines(f) ==
    <<Join(",", f.description)>>
    \o [i \in 1..Len(f.rows) |->
          Join(",", [j \in 1..Len(f.rows[i]) |-> str(f.rows[i][j])])]

\* the rows came back for the statement and no call failed
RowsReturned(f) ==
    /\ ExecuteDone(f) /\ AllOk(f)
    /\ f.description # NoDescription
    /\ Len(f.rows) >= 1

\* no column name and no stringified cell holds a line break
NoLineBreaks(f) ==
    /\ \A j \in 1..Len(f.description) : ~Contains(f.description[j], "\n")
    /\ \A i \in 1..Len(f.rows) :
         \A j \in 1..Len(f.rows[i]) : ~Contains(str(f.rows[i][j]), "\n")

\* C7, as claimed: for N columns and M >= 1 rows the text execute returns
\* has exactly M+1 lines, the comma-joined column names and then the
\* comma-joined stringified cells of each row, in fetch order.
C7_RowsRenderAsLines ==
    \A f \in Frames :
        RowsReturned(f) =>
            /\ f.result.kind = "text"
            /\ Len(Lines(f.result.text)) = Len(f.rows) + 1
            /\ Lines(f.result.text) = ExpectedLines(f)

\* C7, amended: the same, when no column name and no stringified cell
\* contains a line break (cells are not escaped).
C7_RowsRenderAsLinesNoBreaks ==
    \A f \in Frames :
        RowsReturned(f) /\ NoLineBreaks(f) =>
            /\ f.result.kind = "text"
            /\ Len(Lines(f.result.text)) = Len(f.rows) + 1
            /\ Lines(f.result.text) = ExpectedLines(f)

\* two rows of two columns were rendered as three lines
C7_Witness ==
    \E f \in Frames :
        /\ RowsReturned(f) /\ NoLineBreaks(f)
        /\ Len(f.description) = 2 /\ Len(f.rows) = 2
        /\ f.rows[1] # f.rows[2]
        /\ Len(Lines(f.result.text)) = 3

\* the statement has a description and fetchall answered no row
ZeroRows(f) ==
    /\ ExecuteDone(f)
    /\ f.description # NoDescription
    /\ \E i \in At(f, "fetchall") : f.log[i].out = "ok"
    /\ f.rows = <<>>

\* C8: an execute whose statement has a column description and yields zero
\* rows returns "Query executed successfully. No results returned." (when no
\* call fails), and in no case the bare header line or the empty text.
C8_ZeroRowsFixedSentence ==
    \A f \in Frames :
        ZeroRows(f) =>
            /\ f.result.kind = "text"
            /\ f.result.text \notin {"", Join(",", f.description)}
            /\ AllOk(f) =>
                 f.result.text = "Query executed successfully. No results returned."

\* a two-column statement answered no row and the sentence was returned
C8_Witness ==
    \E f \in Frames :
        /\ ZeroRows(f) /\ AllOk(f)
        /\ Len(f.description) = 2
        /\ f.result = TextVal("Query executed successfully. No results returned.")

\* C9, as claimed: every execute ends by returning a text; no failure of any
\* step, the resolution of the configuration included, reaches the caller.
C9_ExecuteAlwaysReturnsText ==
    \A f \in Frames : ExecuteDone(f) => f.result.kind = "text"

\* C9, amended: every execute whose configuration resolves ends by returning
\* a text, whatever fails in connect, cursor, execute, fetch, commit or
\* release; the only fault that reaches the caller is the ValueError of
\* get_db_config, raised before any call on the database.
C9_ExecuteReturnsTextOnceConfigured ==
    \A f \in Frames :
        ExecuteDone(f) =>
            /\ get_db_config(env).ok => f.result.kind = "text"
            /\ f.result.kind # "text" =>
                 /\ f.result = Raised
                 /\ f.exc.kind = "ValueError"
                 /\ f.log = <<>>

\* an execute in which a call failed with something else than a database
\* error returned a text
C9_Witness ==
    \E f \in Frames :
        /\ ExecuteDone(f) /\ f.result.kind = "text"
        /\ \E i \in 1..Len(f.log) : f.log[i].out = "Exception"

\* the invocation is an execute, list or describe that has returned or raised
ToolDone(f) == f.op \in {"execute", "list", "describe"} /\ f.pc = "done"

\* the positions of the log at which a call failed, and the last of them
FailedAt(f) == {i \in 1..Len(f.log) : f.log[i].out # "ok"}
LastFailed(f) == CHOOSE i \in FailedAt(f) : \A j \in FailedAt(f) : j <= i

\* C10, as claimed: in execute, list and describe a failure of the database
\* driver gives a result "MySQL error: <error text>", a failure of any other
\* kind a result that begins with "Unexpected error:", and neither prefix
\* stands for the other kind of failure.
C10_FailuresAreClassified ==
    \A f \in Frames :
        ToolDone(f) /\ f.exc # NoExc =>
            /\ f.result.kind = "text"
            /\ f.exc.kind = "Error" => f.result.text = "MySQL error: " \o f.exc.msg
            /\ f.exc.kind # "Error" => StartsWith(f.result.text, "Unexpected error:")

\* C10, amended: the failure that leaves the guarded block (the last one
\* raised there) gives "MySQL error: <its text>" when it is a database
\* error and "Unexpected error: <its text>" otherwise, and a result bears
\* one of the prefixes only for a failure of its kind; the ValueError of
\* get_db_config is raised before the block and reaches the caller.
C10_GuardedFailuresAreClassified ==
    \A f \in Frames :
        ToolDone(f) =>
            /\ f.exc.kind = "Error" => f.result = TextVal("MySQL error: " \o f.exc.msg)
            /\ f.exc.kind = "Exception" =>
                 f.result = TextVal("Unexpected error: " \o f.exc.msg)
            /\ f.exc.kind = "ValueError" => f.result = Raised /\ f.log = <<>>
            /\ f.exc.kind \in {"Error", "Exception"} =>
                 /\ FailedAt(f) # {}
                 /\ f.exc \in Failures(f.op, f.log[LastFailed(f)].ev)
            /\ f.result.kind = "text" /\ StartsWith(f.result.text, "MySQL error:") =>
                 f.exc.kind = "Error"
            /\ f.result.kind = "text" /\ StartsWith(f.result.text, "Unexpected error:") =>
                 f.exc.kind = "Exception"

\* a describe whose count query failed with a database error after the
\* structure query had answered
C10_Witness ==
    \E f \in Frames :
        /\ ToolDone(f) /\ f.op = "describe"
        /\ Cardinality(At(f, "execute")) = 2
        /\ f.exc.kind = "Error"
        /\ f.result = TextVal("MySQL error: execute failed")


\* the driver calls that act on an open cursor or connection
UsesHandle(ev) == ev \in {"cursor", "execute", "fetchall", "fetchone", "commit"}

\* the connection (the cursor) was opened in the invocation
Opened(f, ev) == \E i \in At(f, ev) : f.log[i].out = "ok"

\* C11: when an execute, list or describe has returned, the connection and
\* the cursor it opened have been released, each exactly once and none that
\* was not opened, the cursor before its connection, on every exit path; and
\* at no time is a statement, fetch or commit issued after the release of
\* the cursor or of the connection.  (A release counts when __exit__ was
\* entered, also when the close itself fails.)
C11_ScopedRelease ==
    \A f \in Frames :
        f.op \in {"execute", "list", "describe"} =>
            /\ f.pc = "done" =>
                 /\ f.conn \in {"none", "closed"}
                 /\ f.cur \in {"none", "closed"}
                 /\ Cardinality(At(f, "close_conn")) = IF Opened(f, "connect") THEN 1 ELSE 0
                 /\ Cardinality(At(f, "close_cursor")) = IF Opened(f, "cursor") THEN 1 ELSE 0
            /\ \A i \in At(f, "close_cursor") :
                 /\ \A j \in At(f, "close_conn") : i < j
                 /\ \A j \in (i + 1)..Len(f.log) : ~UsesHandle(f.log[j].ev)
            /\ \A i \in At(f, "close_conn") : i = Len(f.log)
            /\ \A i \in 1..Len(f.log) :
                 UsesHandle(f.log[i].ev) => Opened(f, "connect")
            /\ f.conn = "closed" <=> At(f, "close_conn") # {}
            /\ f.cur = "closed" <=> At(f, "close_cursor") # {}

\* a describe whose count query failed released its cursor, then its
\* connection
C11_Witness ==
    \E f \in Frames :
        /\ f.op = "describe" /\ f.pc = "done"
        /\ Cardinality(At(f, "execute")) = 2
        /\ f.exc.kind = "Error"
        /\ f.cur = "closed" /\ f.conn = "closed"
        /\ f.log[Len(f.log)].ev = "close_conn"
        /\ f.log[Len(f.log) - 1].ev = "close_cursor"


\* the invocation slots pairwise
SlotPairs == {pq \in (DOMAIN calls) \X (DOMAIN calls) : pq[1] # pq[2]}

\* what the database answered to the statements of invocation f
Responses(f) ==
    <<f.log, f.description, f.rowcount, f.rows, f.count_result>>

\* every connection and cursor in use is the one its invocation opened
OwnHandles ==
    /\ \A p \in DOMAIN calls :
         /\ calls[p].conn = "open" => calls[p].conn_id # 0
         /\ calls[p].cur = "open" =>
              calls[p].conn = "open" /\ calls[p].cur_id = calls[p].conn_id
    /\ \A pq \in SlotPairs :
         LET f == calls[pq[1]]
             g == calls[pq[2]]
         IN  /\ (f.conn = "open" /\ g.conn = "open") => f.conn_id # g.conn_id
             /\ (f.cur = "open" /\ g.cur = "open") => f.cur_id # g.cur_id

\* an invocation that is entered can take its next step whatever the others
\* hold
NoWaiting ==
    \A p \in DOMAIN calls : calls[p].pc # "idle" => ENABLED Advance(p)

\* two finished invocations of the same tool with the same argument and the
\* same answers from the database have the same result
OwnInputsOnly ==
    \A pq \in SlotPairs :
        LET f == calls[pq[1]]
            g == calls[pq[2]]
        IN  (/\ f.pc = "done" /\ g.pc = "done"
             /\ f.op = g.op /\ f.arg = g.arg
             /\ Responses(f) = Responses(g))
            => (f.result = g.result /\ f.exc = g.exc)

\* C12: under any interleaving of concurrent invocations of execute_sql,
\* list_tables and describe_table, a connection or cursor is used only by the
\* invocation that opened it, no invocation waits for another, and the result
\* of an invocation is determined by its own arguments and the answers the
\* database gave to its own statements.
C12_InvocationsAreIsolated ==
    /\ OwnHandles
    /\ NoWaiting
    /\ OwnInputsOnly

\* two invocations in flight at once, each on its own connection and cursor,
\* the second slot having connected first
C12_Witness ==
    /\ calls[1].op = "execute" /\ calls[1].pc = "fetchall"
    /\ calls[2].op = "describe" /\ calls[2].pc = "execute_count"
    /\ calls[1].cur = "open" /\ calls[2].cur = "open"
    /\ calls[1].conn_id = 2 /\ calls[2].conn_id = 1

\* the first position of the log at which a call failed
FirstFailed(f) == CHOOSE i \in FailedAt(f) : \A j \in FailedAt(f) : i <= j

\* the operations that open a connection
Connecting(f) == f.op \in {"execute", "list", "describe", "exists"}

\* within an invocation the connection is opened at most once, no statement
\* is sent twice, there is at most one commit, and once a call has failed no
\* connection is opened, no statement sent and nothing committed
NoSecondAttempt(f) ==
    /\ Cardinality(At(f, "connect")) <= 1
    /\ Cardinality(At(f, "commit")) <= 1
    /\ \A i \in At(f, "execute") : \A j \in At(f, "execute") :
         f.log[i].sql = f.log[j].sql => i = j
    /\ FailedAt(f) # {} =>
         \A j \in (FirstFailed(f) + 1)..Len(f.log) :
             f.log[j].ev \notin {"connect", "execute", "commit"}

\* the result of f is the report of the failure at position i of its log,
\* and of nothing else
Reports(f, i) ==
    IF f.op = "exists" THEN f.result = BoolVal(FALSE)
    ELSE \E e \in Failures(f.op, f.log[i].ev) :
            e.kind = f.log[i].out /\ f.result = TextVal(ErrorText(e))

\* C13, as claimed: no invocation of execute, list, describe or exists
\* retries: the connection is opened at most once, each statement is sent at
\* most once, after the first failure no statement and no commit follows, and
\* the single result reports that first failure, once.
C13_NoRetryFirstFailureReported ==
    \A f \in Frames :
        Connecting(f) =>
            /\ NoSecondAttempt(f)
            /\ (f.pc = "done" /\ FailedAt(f) # {}) => Reports(f, FirstFailed(f))

\* C13, amended: as above, but the failure the single result reports is the
\* one that left the with blocks, which is the first failure unless a release
\* of the cursor or of the connection raised after it: then it is the last
\* of those.
C13_NoRetryOneFailureReported ==
    \A f \in Frames :
        Connecting(f) =>
            /\ NoSecondAttempt(f)
            /\ (f.pc = "done" /\ FailedAt(f) # {}) =>
                 /\ Reports(f, LastFailed(f))
                 /\ \A j \in FailedAt(f) :
                      j # FirstFailed(f) => f.log[j].ev \in {"close_cursor", "close_conn"}

\* an execute whose commit failed and whose cursor then failed to close: one
\* statement, one commit, and the result reports the failed close
C13_Witness ==
    \E f \in Frames :
        /\ f.op = "execute" /\ f.pc = "done"
        /\ Cardinality(At(f, "execute")) = 1
        /\ \E i \in At(f, "commit") : f.log[i].out = "Error" /\ FirstFailed(f) = i
        /\ \E i \in At(f, "close_cursor") : f.log[i].out = "Error" /\ LastFailed(f) = i
        /\ f.result = TextVal("MySQL error: close_cursor failed")

\* the invocation has left the cursor's with block
PastBranch(f) == f.pc \in {"exit_cursor", "exit_conn", "except", "done"}

\* the two branches of execute_sql: rows are fetched, the work is committed
Fetches(f) == At(f, "fetchall") \cup At(f, "fetchone")
Commits(f) == At(f, "commit")

\* C14: an execute takes exactly one of two branches, chosen only by whether
\* the executed statement has a column description: with one it calls
\* fetchall once and never commits, without one it commits once and never
\* fetches; an execute whose statement failed (or was never reached) does
\* neither.
C14_OneBranchByDescription ==
    \A f \in Frames :
        f.op = "execute" =>
            /\ ~StatementOk(f) => Fetches(f) = {} /\ Commits(f) = {}
            /\ (StatementOk(f) /\ f.description # NoDescription) =>
                 /\ Commits(f) = {}
                 /\ Cardinality(Fetches(f)) <= 1
                 /\ PastBranch(f) => Cardinality(At(f, "fetchall")) = 1
            /\ (StatementOk(f) /\ f.description = NoDescription) =>
                 /\ Fetches(f) = {}
                 /\ Cardinality(Commits(f)) <= 1
                 /\ PastBranch(f) => Cardinality(Commits(f)) = 1

\* an INSERT for which the driver reported a column description: it fetched
\* and did not commit, whatever the SQL text and the row count
C14_Witness ==
    \E f \in Frames :
        /\ ExecuteDone(f) /\ StartsWith(f.arg, "INSERT")
        /\ f.description = <<"id", "name">>
        /\ Cardinality(At(f, "fetchall")) = 1 /\ Commits(f) = {}
        /\ Len(f.rows) = 1

====
